---- MODULE Spec2Model ----
(***************************************************************************)
(* Model of packages/desktop/src-tauri/src/stt.rs: the speech-to-text      *)
(* engine SttState (recording buffer, model lifecycle, vocabulary, greedy  *)
(* TDT decode loop) and the asynchronous download_models task.             *)
(*                                                                         *)
(* Every method of SttState runs with the engine mutex held by its caller  *)
(* for the whole call, so each is one atomic action.  download_models      *)
(* takes the mutex separately for each touch of the engine, so it is one   *)
(* action per locked block and per network step.                           *)
(***************************************************************************)
EXTENDS Integers, Sequences, FiniteSets, TLC

VARIABLES
    audio_buffer,          \* SttState.audio_buffer : Vec<f32>
    is_recording,          \* SttState.is_recording
    preprocessor_session,  \* Option<Session>: TRUE is Some
    encoder_session,
    decoder_session,
    vocab,                 \* HashMap<i64, String>
    vocab_size,
    blank_idx,
    model_status,
    disk,                  \* the model directory: file -> "absent" | "partial" | "good"
    vocab_txt,             \* the lines of vocab.txt as they are on disk
    task,                  \* the download_models tasks: their position and counter
    ret,                   \* what the last finished call returned
    pushed,                \* history: samples of the successful pushes since the last successful start
    dec                    \* the locals of transcribe's decode loop

vars == <<audio_buffer, is_recording, preprocessor_session, encoder_session,
          decoder_session, vocab, vocab_size, blank_idx, model_status,
          disk, vocab_txt, task, ret, pushed, dec>>

engine == <<audio_buffer, is_recording, preprocessor_session, encoder_session,
            decoder_session, vocab, vocab_size, blank_idx, model_status>>

(***************************************************************************)
(* Bounds of the model.                                                    *)
(***************************************************************************)
NumTasks == 1        \* calls of download_models made in a run
MaxBuf == 2          \* samples the audio buffer is let grow to
MaxFrames == 2       \* frames of an encoder output
MaxDur == 3          \* duration logits of a decoder-joint output
MaxLogit == 1        \* logit values are NaN, 0 .. MaxLogit

(***************************************************************************)
(* Program constants.                                                      *)
(***************************************************************************)
MODEL_FILES == <<"nemo128.onnx", "encoder-model.onnx", "encoder-model.onnx.data",
                 "decoder_joint-model.onnx", "vocab.txt", "config.json">>
max_tokens_per_step == 10

Files == 1 .. Len(MODEL_FILES)
FileIdx(name) == CHOOSE i \in Files : MODEL_FILES[i] = name

Samples == {1, 2}
Chunks == {<<>>} \cup {<<a>> : a \in Samples} \cup {<<1, 2>>}

(***************************************************************************)
(* ModelStatus.  Downloading carries progress = downloaded / total_files;  *)
(* the model keeps the numerator.                                          *)
(***************************************************************************)
NotDownloaded == [type |-> "NotDownloaded", progress |-> 0, message |-> ""]
Downloading(k) == [type |-> "Downloading", progress |-> k, message |-> ""]
Ready == [type |-> "Ready", progress |-> 0, message |-> ""]
Error(m) == [type |-> "Error", progress |-> 0, message |-> m]

(***************************************************************************)
(* Results.  A call returns Ok with a value or Err with a message.         *)
(***************************************************************************)
NoInvoke == {}
Ok(op, v) == [op |-> op, ok |-> TRUE, err |-> "", out |-> v, invoked |-> NoInvoke, calls |-> 0]
Err(op, m) == [op |-> op, ok |-> FALSE, err |-> m, out |-> <<>>, invoked |-> NoInvoke, calls |-> 0]

(***************************************************************************)
(* The engine as one record, for the methods that are functions of it.     *)
(***************************************************************************)
Self == [audio_buffer |-> audio_buffer, is_recording |-> is_recording,
         preprocessor_session |-> preprocessor_session,
         encoder_session |-> encoder_session,
         decoder_session |-> decoder_session,
         vocab |-> vocab, vocab_size |-> vocab_size, blank_idx |-> blank_idx,
         model_status |-> model_status]

Store(s) ==
    /\ audio_buffer' = s.audio_buffer
    /\ is_recording' = s.is_recording
    /\ preprocessor_session' = s.preprocessor_session
    /\ encoder_session' = s.encoder_session
    /\ decoder_session' = s.decoder_session
    /\ vocab' = s.vocab
    /\ vocab_size' = s.vocab_size
    /\ blank_idx' = s.blank_idx
    /\ model_status' = s.model_status

(***************************************************************************)
(* Recording.                                                              *)
(***************************************************************************)
\* start_recording without audio_buffer.clear().
start_recording_noClear(self) ==
    IF self.model_status.type # "Ready"
    THEN [self |-> self,
          ret |-> Err("start_recording", "Model not ready. Please download the model first.")]
    ELSE [self |-> [self EXCEPT !.is_recording = TRUE],
          ret |-> Ok("start_recording", <<>>)]

start_recording(self) ==
    IF self.model_status.type # "Ready"
    THEN [self |-> self,
          ret |-> Err("start_recording", "Model not ready. Please download the model first.")]
    ELSE [self |-> [self EXCEPT !.audio_buffer = <<>>, !.is_recording = TRUE],
          ret |-> Ok("start_recording", <<>>)]

\* push_audio without the is_recording check.
push_audio_unguarded(self, samples) ==
    [self |-> [self EXCEPT !.audio_buffer = self.audio_buffer \o samples],
     ret |-> Ok("push_audio", <<>>)]

push_audio(self, samples) ==
    IF ~self.is_recording
    THEN [self |-> self, ret |-> Err("push_audio", "Not recording")]
    ELSE [self |-> [self EXCEPT !.audio_buffer = self.audio_buffer \o samples],
          ret |-> Ok("push_audio", <<>>)]

\* stop_recording returning a clone and leaving the buffer as it is.
stop_recording_clone(self) ==
    [self |-> [self EXCEPT !.is_recording = FALSE],
     ret |-> Ok("stop_recording", self.audio_buffer)]

\* std::mem::take leaves an empty Vec behind and returns the old one.
stop_recording(self) ==
    [self |-> [self EXCEPT !.is_recording = FALSE, !.audio_buffer = <<>>],
     ret |-> Ok("stop_recording", self.audio_buffer)]

(***************************************************************************)
(* vocab.txt.  A line is the sequence of its fields after                  *)
(* line.trim().split(' '); a field is a sequence of characters.            *)
(***************************************************************************)
Marker == "U+2581"
Blk == <<"<", "b", "l", "k", ">">>
Digits == <<"0", "1", "2", "3", "4", "5", "6", "7", "8", "9">>
IsDigit(c) == \E d \in 1 .. Len(Digits) : Digits[d] = c
DigitVal(c) == (CHOOSE d \in 1 .. Len(Digits) : Digits[d] = c) - 1

RECURSIVE ParseDigits(_, _)
ParseDigits(f, acc) ==
    IF f = <<>> THEN acc ELSE ParseDigits(Tail(f), acc * Len(Digits) + DigitVal(Head(f)))

\* str::parse::<i64> of a field of decimal digits.
ParseI64(f) ==
    IF f # <<>> /\ \A k \in 1 .. Len(f) : IsDigit(f[k])
    THEN [ok |-> TRUE, v |-> ParseDigits(f, 0)]
    ELSE [ok |-> FALSE, v |-> 0]

\* parts[0].replace('\u{2581}', " ")
ReplaceMarker(f) == [k \in 1 .. Len(f) |-> IF f[k] = Marker THEN " " ELSE f[k]]

Put(m, id, tok) == [k \in DOMAIN m \cup {id} |-> IF k = id THEN tok ELSE m[k]]
EmptyVocab == [k \in {} |-> <<>>]

\* The loop over content.lines(): stops at the first id that does not parse.
RECURSIVE VocabLines(_, _, _)
VocabLines(lines, m, blank) ==
    IF lines = <<>> THEN [ok |-> TRUE, vocab |-> m, blank_idx |-> blank, bad |-> <<>>]
    ELSE LET parts == Head(lines) IN
         IF Len(parts) >= 2
         THEN LET id == ParseI64(parts[2]) IN
              IF ~id.ok
              THEN [ok |-> FALSE, vocab |-> m, blank_idx |-> blank, bad |-> parts[2]]
              ELSE VocabLines(Tail(lines), Put(m, id.v, ReplaceMarker(parts[1])),
                              IF parts[1] = Blk THEN id.v ELSE blank)
         ELSE VocabLines(Tail(lines), m, blank)

\* readOk: whether std::fs::read_to_string succeeds.
load_vocab(self, lines, readOk) ==
    IF ~readOk
    THEN [self |-> self, ok |-> FALSE, err |-> "Failed to read vocab"]
    ELSE LET r == VocabLines(lines, EmptyVocab, self.blank_idx) IN
         IF ~r.ok
         THEN [self |-> [self EXCEPT !.vocab = r.vocab, !.blank_idx = r.blank_idx],
               ok |-> FALSE, err |-> "Invalid vocab ID"]
         ELSE [self |-> [self EXCEPT !.vocab = r.vocab, !.blank_idx = r.blank_idx,
                                     !.vocab_size = Cardinality(DOMAIN r.vocab)],
               ok |-> TRUE, err |-> ""]

(***************************************************************************)
(* Model load.                                                             *)
(***************************************************************************)
\* are_models_downloaded with any in place of all.
are_models_downloaded_any(d) == \E i \in Files : d[i] # "absent"

are_models_downloaded(d) == \A i \in Files : d[i] # "absent"

\* What the environment may refuse during a load, beyond what the files decide.
EnvFails == {"none", "read", "ort", "preprocessor", "encoder", "decoder"}

\* commit_from_file: a session is created from a completely written file.
SessionLoads(d, name, envFail, step) == d[FileIdx(name)] = "good" /\ envFail # step

\* load_models filling each slot as soon as its session is built.
load_models_slotBySlot(self, d, lines, envFail) ==
    IF ~are_models_downloaded(d)
    THEN [self |-> self, ret |-> Err("load_models", "Models not downloaded")]
    ELSE LET v == load_vocab(self, lines, d[FileIdx("vocab.txt")] # "absent" /\ envFail # "read") IN
         IF ~v.ok THEN [self |-> v.self, ret |-> Err("load_models", v.err)]
         ELSE IF envFail = "ort"
         THEN [self |-> v.self, ret |-> Err("load_models", "Failed to initialize ONNX Runtime")]
         ELSE IF ~SessionLoads(d, "nemo128.onnx", envFail, "preprocessor")
         THEN [self |-> v.self, ret |-> Err("load_models", "Failed to load preprocessor model")]
         ELSE IF ~(SessionLoads(d, "encoder-model.onnx", envFail, "encoder")
                   /\ d[FileIdx("encoder-model.onnx.data")] = "good")
         THEN [self |-> [v.self EXCEPT !.preprocessor_session = TRUE],
               ret |-> Err("load_models", "Failed to load encoder model")]
         ELSE IF ~SessionLoads(d, "decoder_joint-model.onnx", envFail, "decoder")
         THEN [self |-> [v.self EXCEPT !.preprocessor_session = TRUE,
                                       !.encoder_session = TRUE],
               ret |-> Err("load_models", "Failed to load decoder model")]
         ELSE [self |-> [v.self EXCEPT !.preprocessor_session = TRUE,
                                       !.encoder_session = TRUE,
                                       !.decoder_session = TRUE,
                                       !.model_status = Ready],
               ret |-> Ok("load_models", <<>>)]

load_models(self, d, lines, envFail) ==
    IF ~are_models_downloaded(d)
    THEN [self |-> self, ret |-> Err("load_models", "Models not downloaded")]
    ELSE LET v == load_vocab(self, lines, d[FileIdx("vocab.txt")] # "absent" /\ envFail # "read") IN
         IF ~v.ok THEN [self |-> v.self, ret |-> Err("load_models", v.err)]
         ELSE IF envFail = "ort"
         THEN [self |-> v.self, ret |-> Err("load_models", "Failed to initialize ONNX Runtime")]
         ELSE IF ~SessionLoads(d, "nemo128.onnx", envFail, "preprocessor")
         THEN [self |-> v.self, ret |-> Err("load_models", "Failed to load preprocessor model")]
         ELSE IF ~(SessionLoads(d, "encoder-model.onnx", envFail, "encoder")
                   /\ d[FileIdx("encoder-model.onnx.data")] = "good")
         THEN [self |-> v.self, ret |-> Err("load_models", "Failed to load encoder model")]
         ELSE IF ~SessionLoads(d, "decoder_joint-model.onnx", envFail, "decoder")
         THEN [self |-> v.self, ret |-> Err("load_models", "Failed to load decoder model")]
         ELSE [self |-> [v.self EXCEPT !.preprocessor_session = TRUE,
                                       !.encoder_session = TRUE,
                                       !.decoder_session = TRUE,
                                       !.model_status = Ready],
               ret |-> Ok("load_models", <<>>)]

\* SttState::new: the fields' first values, then a load if the files are there.
new(d, lines, envFail) ==
    LET state == [audio_buffer |-> <<>>, is_recording |-> FALSE,
                  preprocessor_session |-> FALSE, encoder_session |-> FALSE,
                  decoder_session |-> FALSE,
                  vocab |-> EmptyVocab, vocab_size |-> 0, blank_idx |-> 0,
                  model_status |-> NotDownloaded]
    IN IF are_models_downloaded(d)
       THEN LET r == load_models(state, d, lines, envFail) IN
            IF r.ret.ok THEN r.self
            ELSE [r.self EXCEPT !.model_status = Error(r.ret.err)]
       ELSE state

(***************************************************************************)
(* Contents of vocab.txt: on disk when the engine is built, or served by   *)
(* the remote source.                                                      *)
(***************************************************************************)
VocabA == << <<(<<Marker, "a">>), (<<"0">>)>>, <<Blk, (<<"1">>)>> >>
VocabB == << <<Blk, (<<"0">>)>>, <<(<<"h", "i">>), (<<"1">>)>> >>
VocabBad == << <<(<<"h", "i">>), (<<"5">>)>>, <<Blk, (<<"x">>)>> >>
RemoteVocabs == {VocabA, VocabBad}

(***************************************************************************)
(* download_models.  A task is at one of:                                  *)
(*   "idle"    not called yet                                              *)
(*   "done"    returned                                                    *)
(*   "begin"   passed the already-loaded check; next: create_dir_all and   *)
(*             the locked block that sets Downloading { progress: 0.0 }    *)
(*   "loop"    at the head of the loop over MODEL_FILES, or past it        *)
(*   "send"    in download_file, before File::create                       *)
(*   "stream"  in download_file, the file created and being written        *)
(* downloaded is the task's counter of completed files; locked says that   *)
(* the task holds the guard of the engine's mutex.                         *)
(***************************************************************************)
Tasks == 1 .. NumTasks
IdleTask == [pc |-> "idle", downloaded |-> 0, locked |-> FALSE]
Returned(tk) == [tk EXCEPT !.pc = "done"]
total_files == Len(MODEL_FILES)

\* state.lock() returns once no task holds the guard; the guard lives to the
\* end of the block it was taken in.
LockFree == \A j \in Tasks : ~task[j].locked
Lock(tk) == [tk EXCEPT !.locked = TRUE]

\* The guard outliving its block.
Unlock_keep(tk) == tk

Unlock(tk) == [tk EXCEPT !.locked = FALSE]

\* The file a task in "send" or "stream" is fetching.
Fetching(tk) == tk.downloaded + 1

\* Lines 487-494: the check that the models are not already loaded.
AlreadyLoaded(self) == self.model_status.type = "Ready" /\ self.preprocessor_session

DlCheck(i) ==
    /\ task[i].pc = "idle"
    /\ LockFree
    /\ IF AlreadyLoaded(Self)
       THEN /\ ret' = Ok("download_models", <<>>)
            /\ task' = [task EXCEPT ![i] = Returned(Unlock(Lock(task[i])))]
       ELSE /\ task' = [task EXCEPT ![i] = Unlock([Lock(task[i]) EXCEPT !.pc = "begin"])]
            /\ UNCHANGED ret
    /\ UNCHANGED <<engine, disk, vocab_txt, pushed, dec>>

\* Lines 496-507: create_dir_all, then the status is set to Downloading.
DlBegin(i) ==
    /\ task[i].pc = "begin"
    /\ \/ /\ task' = [task EXCEPT ![i] = Returned(task[i])]
          /\ ret' = Err("download_models", "Failed to create model directory")
          /\ UNCHANGED engine
       \/ /\ LockFree
          /\ task' = [task EXCEPT ![i] = Unlock([Lock(task[i]) EXCEPT !.pc = "loop"])]
          /\ Store([Self EXCEPT !.model_status = Downloading(0)])
          /\ UNCHANGED ret
    /\ UNCHANGED <<disk, vocab_txt, pushed, dec>>

\* Lines 515-528: the progress event, then the status carries the progress.
DlProgress(i) ==
    /\ task[i].pc = "loop"
    /\ task[i].downloaded < total_files
    /\ \/ /\ task' = [task EXCEPT ![i] = Returned(task[i])]
          /\ ret' = Err("download_models", "Failed to emit progress")
          /\ UNCHANGED engine
       \/ /\ LockFree
          /\ task' = [task EXCEPT ![i] = Unlock([Lock(task[i]) EXCEPT !.pc = "send"])]
          /\ Store([Self EXCEPT !.model_status = Downloading(task[i].downloaded)])
          /\ UNCHANGED ret
    /\ UNCHANGED <<disk, vocab_txt, pushed, dec>>

\* Lines 451-468: the request; File::create truncates the file.
DlSend(i) ==
    /\ task[i].pc = "send"
    /\ \/ /\ task' = [task EXCEPT ![i] = Returned(task[i])]
          /\ ret' = Err("download_models", "Failed to download")
          /\ UNCHANGED <<disk, vocab_txt>>
       \/ /\ task' = [task EXCEPT ![i].pc = "stream"]
          /\ disk' = [disk EXCEPT ![Fetching(task[i])] = "partial"]
          /\ vocab_txt' = IF Fetching(task[i]) = FileIdx("vocab.txt") THEN <<>> ELSE vocab_txt
          /\ UNCHANGED ret
    /\ UNCHANGED <<engine, pushed, dec>>

\* Lines 470-482, 531: the chunks are written; the file is whole unless another
\* task is writing it too.
DlStream(i) ==
    /\ task[i].pc = "stream"
    /\ \/ /\ task' = [task EXCEPT ![i] = Returned(task[i])]
          /\ ret' = Err("download_models", "Download error")
          /\ UNCHANGED <<disk, vocab_txt>>
       \/ \E lines \in RemoteVocabs :
          LET f == Fetching(task[i])
              shared == \E j \in Tasks \ {i} : task[j].pc = "stream" /\ Fetching(task[j]) = f
          IN /\ task' = [task EXCEPT ![i] = [task[i] EXCEPT !.pc = "loop", !.downloaded = f]]
             /\ disk' = [disk EXCEPT ![f] = IF shared THEN "partial" ELSE "good"]
             /\ vocab_txt' = IF f = FileIdx("vocab.txt") /\ ~shared THEN lines ELSE vocab_txt
             /\ UNCHANGED ret
    /\ UNCHANGED <<engine, pushed, dec>>

\* Lines 534-536: the completion event may fail to be emitted.
DlEmitDone(i) ==
    /\ task[i].pc = "loop"
    /\ task[i].downloaded = total_files
    /\ task' = [task EXCEPT ![i] = Returned(task[i])]
    /\ ret' = Err("download_models", "Failed to emit progress")
    /\ UNCHANGED <<engine, disk, vocab_txt, pushed, dec>>

\* Lines 538-546: load_models under the lock; its error is the task's.
DlLoad(i) ==
    /\ task[i].pc = "loop"
    /\ task[i].downloaded = total_files
    /\ LockFree
    /\ task' = [task EXCEPT ![i] = Returned(Unlock(Lock(task[i])))]
    /\ \E envFail \in EnvFails :
          LET r == load_models(Self, disk, vocab_txt, envFail) IN
          /\ Store(r.self)
          /\ ret' = [r.ret EXCEPT !.op = "download_models"]
    /\ UNCHANGED <<disk, vocab_txt, pushed, dec>>

(***************************************************************************)
(* The engine's methods as called by the application, each under the lock. *)
(***************************************************************************)
StartRecording ==
    LET r == start_recording(Self) IN
    /\ LockFree
    /\ Store(r.self)
    /\ ret' = r.ret
    /\ pushed' = IF r.ret.ok THEN <<>> ELSE pushed
    /\ UNCHANGED <<disk, vocab_txt, task, dec>>

PushAudioOf(samples) ==
    LET r == push_audio(Self, samples) IN
    /\ Len(audio_buffer) + Len(samples) <= MaxBuf
    /\ LockFree
    /\ Store(r.self)
    /\ ret' = r.ret
    /\ pushed' = IF r.ret.ok THEN pushed \o samples ELSE pushed
    /\ UNCHANGED <<disk, vocab_txt, task, dec>>

PushAudio == \E samples \in Chunks : PushAudioOf(samples)

StopRecording ==
    LET r == stop_recording(Self) IN
    /\ LockFree
    /\ Store(r.self)
    /\ ret' = r.ret
    /\ UNCHANGED <<disk, vocab_txt, task, pushed, dec>>

LoadModels ==
    \E envFail \in EnvFails :
    LET r == load_models(Self, disk, vocab_txt, envFail) IN
    /\ LockFree
    /\ Store(r.self)
    /\ ret' = r.ret
    /\ UNCHANGED <<disk, vocab_txt, task, pushed, dec>>

(***************************************************************************)
(* Logits.  An f32 is a number or NaN; partial_cmp of two f32 is None when *)
(* either is NaN.                                                          *)
(***************************************************************************)
NaN == [nan |-> TRUE, v |-> 0]
Num(x) == [nan |-> FALSE, v |-> x]
LogitVals == {NaN} \cup {Num(x) : x \in 0 .. MaxLogit}

partial_cmp(a, b) ==
    IF a.nan \/ b.nan THEN "None"
    ELSE IF a.v < b.v THEN "Less"
    ELSE IF a.v > b.v THEN "Greater"
    ELSE "Equal"

\* a.partial_cmp(b).unwrap_or(Ordering::Equal)
Compare(a, b) == LET c == partial_cmp(a, b) IN IF c = "None" THEN "Equal" ELSE c

\* A reduce that keeps the element it holds unless the next one is greater.
RECURSIVE MaxByFirst(_, _, _)
MaxByFirst(xs, best, k) ==
    IF k > Len(xs) THEN best
    ELSE MaxByFirst(xs, IF Compare(xs[best], xs[k]) = "Less" THEN k ELSE best, k + 1)

\* Iterator::max_by is a reduce that keeps the element it holds only when
\* the comparison with the next element is Greater.
RECURSIVE MaxByFrom(_, _, _)
MaxByFrom(xs, best, k) ==
    IF k > Len(xs) THEN best
    ELSE MaxByFrom(xs, IF Compare(xs[best], xs[k]) = "Greater" THEN best ELSE k, k + 1)

\* .enumerate().max_by(..).map(|(i, _)| i): the 0-based index, None on an empty slice.
max_by(xs) ==
    IF xs = <<>> THEN [some |-> FALSE, i |-> 0]
    ELSE [some |-> TRUE, i |-> MaxByFrom(xs, 1, 2) - 1]

\* Lines 362-369.
SelectToken(token_logits, blank) ==
    LET m == max_by(token_logits) IN IF m.some THEN m.i ELSE blank

\* Lines 372-383.
SelectStep(duration_logits) ==
    IF duration_logits = <<>> THEN 0
    ELSE LET m == max_by(duration_logits) IN IF m.some THEN m.i ELSE 0

(***************************************************************************)
(* The decode loop of transcribe (lines 296-415).  d holds its locals; out *)
(* is what the decoder-joint session returned for this iteration:          *)
(* out.outputs the logits, out.state the new recurrent state pair.         *)
(* The recurrent state is named by the call that returned it, 0 for zeros. *)
(***************************************************************************)
\* The loop condition with the bound by the tensor's frame count left out.
LoopCond_lenOnly(d) == d.t < d.encoded_len

LoopCond(d) == d.t < d.encoded_len /\ d.t < d.num_frames

\* prev_token taken from the front of the emitted tokens.
PrevToken_first(d, blank) == IF d.tokens = <<>> THEN blank ELSE d.tokens[1]

PrevToken(d, blank) == IF d.tokens = <<>> THEN blank ELSE d.tokens[Len(d.tokens)]

\* The loop body with the cap compared by > in place of >=.
decode_iter_capOffByOne(d, out, blank, V) ==
    LET token_logits == SubSeq(out.outputs, 1, V)
        duration_logits == SubSeq(out.outputs, V + 1, Len(out.outputs))
        token == SelectToken(token_logits, blank)
        step == SelectStep(duration_logits)
        emit == token # blank
        emitted == IF emit THEN d.emitted_tokens + 1 ELSE d.emitted_tokens
        d1 == [d EXCEPT !.state1 = IF emit THEN out.state ELSE d.state1,
                        !.state2 = IF emit THEN out.state ELSE d.state2,
                        !.tokens = IF emit THEN Append(d.tokens, token) ELSE d.tokens,
                        !.prev_token = PrevToken(d, blank),
                        !.token = token,
                        !.step = step]
    IN IF step > 0
       THEN [d1 EXCEPT !.t = d.t + step, !.emitted_tokens = 0]
       ELSE IF token = blank \/ emitted > max_tokens_per_step
       THEN [d1 EXCEPT !.t = d.t + 1, !.emitted_tokens = 0]
       ELSE [d1 EXCEPT !.emitted_tokens = emitted]

\* The loop body advancing one frame whatever the step.
decode_iter_stepByOne(d, out, blank, V) ==
    LET token_logits == SubSeq(out.outputs, 1, V)
        duration_logits == SubSeq(out.outputs, V + 1, Len(out.outputs))
        token == SelectToken(token_logits, blank)
        step == SelectStep(duration_logits)
        emit == token # blank
        emitted == IF emit THEN d.emitted_tokens + 1 ELSE d.emitted_tokens
        d1 == [d EXCEPT !.state1 = IF emit THEN out.state ELSE d.state1,
                        !.state2 = IF emit THEN out.state ELSE d.state2,
                        !.tokens = IF emit THEN Append(d.tokens, token) ELSE d.tokens,
                        !.prev_token = PrevToken(d, blank),
                        !.token = token,
                        !.step = step]
    IN IF step > 0
       THEN [d1 EXCEPT !.t = d.t + 1, !.emitted_tokens = 0]
       ELSE IF token = blank \/ emitted >= max_tokens_per_step
       THEN [d1 EXCEPT !.t = d.t + 1, !.emitted_tokens = 0]
       ELSE [d1 EXCEPT !.emitted_tokens = emitted]

\* The loop body leaving the frame after every iteration without a step.
decode_iter_emitAdvances(d, out, blank, V) ==
    LET token_logits == SubSeq(out.outputs, 1, V)
        duration_logits == SubSeq(out.outputs, V + 1, Len(out.outputs))
        token == SelectToken(token_logits, blank)
        step == SelectStep(duration_logits)
        emit == token # blank
        emitted == IF emit THEN d.emitted_tokens + 1 ELSE d.emitted_tokens
        d1 == [d EXCEPT !.state1 = IF emit THEN out.state ELSE d.state1,
                        !.state2 = IF emit THEN out.state ELSE d.state2,
                        !.tokens = IF emit THEN Append(d.tokens, token) ELSE d.tokens,
                        !.prev_token = PrevToken(d, blank),
                        !.token = token,
                        !.step = step]
    IN IF step > 0
       THEN [d1 EXCEPT !.t = d.t + step, !.emitted_tokens = 0]
       ELSE IF TRUE
       THEN [d1 EXCEPT !.t = d.t + 1, !.emitted_tokens = 0]
       ELSE [d1 EXCEPT !.emitted_tokens = emitted]

\* The loop body taking the returned state in every iteration.
decode_iter_stateAlways(d, out, blank, V) ==
    LET token_logits == SubSeq(out.outputs, 1, V)
        duration_logits == SubSeq(out.outputs, V + 1, Len(out.outputs))
        token == SelectToken(token_logits, blank)
        step == SelectStep(duration_logits)
        emit == token # blank
        emitted == IF emit THEN d.emitted_tokens + 1 ELSE d.emitted_tokens
        d1 == [d EXCEPT !.state1 = out.state,
                        !.state2 = out.state,
                        !.tokens = IF emit THEN Append(d.tokens, token) ELSE d.tokens,
                        !.prev_token = PrevToken(d, blank),
                        !.token = token,
                        !.step = step]
    IN IF step > 0
       THEN [d1 EXCEPT !.t = d.t + step, !.emitted_tokens = 0]
       ELSE IF token = blank \/ emitted >= max_tokens_per_step
       THEN [d1 EXCEPT !.t = d.t + 1, !.emitted_tokens = 0]
       ELSE [d1 EXCEPT !.emitted_tokens = emitted]

\* The loop body pushing the selected token blank or not.
decode_iter_pushAlways(d, out, blank, V) ==
    LET token_logits == SubSeq(out.outputs, 1, V)
        duration_logits == SubSeq(out.outputs, V + 1, Len(out.outputs))
        token == SelectToken(token_logits, blank)
        step == SelectStep(duration_logits)
        emit == token # blank
        emitted == IF emit THEN d.emitted_tokens + 1 ELSE d.emitted_tokens
        d1 == [d EXCEPT !.state1 = IF emit THEN out.state ELSE d.state1,
                        !.state2 = IF emit THEN out.state ELSE d.state2,
                        !.tokens = Append(d.tokens, token),
                        !.prev_token = PrevToken(d, blank),
                        !.token = token,
                        !.step = step]
    IN IF step > 0
       THEN [d1 EXCEPT !.t = d.t + step, !.emitted_tokens = 0]
       ELSE IF token = blank \/ emitted >= max_tokens_per_step
       THEN [d1 EXCEPT !.t = d.t + 1, !.emitted_tokens = 0]
       ELSE [d1 EXCEPT !.emitted_tokens = emitted]

\* The loop body keeping the counter when a step moves the frame.
decode_iter_noReset(d, out, blank, V) ==
    LET token_logits == SubSeq(out.outputs, 1, V)
        duration_logits == SubSeq(out.outputs, V + 1, Len(out.outputs))
        token == SelectToken(token_logits, blank)
        step == SelectStep(duration_logits)
        emit == token # blank
        emitted == IF emit THEN d.emitted_tokens + 1 ELSE d.emitted_tokens
        d1 == [d EXCEPT !.state1 = IF emit THEN out.state ELSE d.state1,
                        !.state2 = IF emit THEN out.state ELSE d.state2,
                        !.tokens = IF emit THEN Append(d.tokens, token) ELSE d.tokens,
                        !.prev_token = PrevToken(d, blank),
                        !.token = token,
                        !.step = step]
    IN IF step > 0
       THEN [d1 EXCEPT !.t = d.t + step, !.emitted_tokens = emitted]
       ELSE IF token = blank \/ emitted >= max_tokens_per_step
       THEN [d1 EXCEPT !.t = d.t + 1, !.emitted_tokens = 0]
       ELSE [d1 EXCEPT !.emitted_tokens = emitted]

decode_iter(d, out, blank, V) ==
    LET token_logits == SubSeq(out.outputs, 1, V)
        duration_logits == SubSeq(out.outputs, V + 1, Len(out.outputs))
        token == SelectToken(token_logits, blank)
        step == SelectStep(duration_logits)
        emit == token # blank
        emitted == IF emit THEN d.emitted_tokens + 1 ELSE d.emitted_tokens
        d1 == [d EXCEPT !.state1 = IF emit THEN out.state ELSE d.state1,
                        !.state2 = IF emit THEN out.state ELSE d.state2,
                        !.tokens = IF emit THEN Append(d.tokens, token) ELSE d.tokens,
                        !.prev_token = PrevToken(d, blank),
                        !.token = token,
                        !.step = step]
    IN IF step > 0
       THEN [d1 EXCEPT !.t = d.t + step, !.emitted_tokens = 0]
       ELSE IF token = blank \/ emitted >= max_tokens_per_step
       THEN [d1 EXCEPT !.t = d.t + 1, !.emitted_tokens = 0]
       ELSE [d1 EXCEPT !.emitted_tokens = emitted]

\* One iteration with its history: the calls made, the frame and recurrent
\* state the call was given, the iterations since t last advanced, the
\* tokens pushed by the iterations run at the frame of this one, the last
\* call that selected a token other than blank.
Iterate(d, out, blank, V) ==
    LET r == decode_iter(d, out, blank, V) IN
    [r EXCEPT !.calls = d.calls + 1,
              !.frame = d.t,
              !.in_state = d.state1,
              !.stalled = IF r.t > d.t THEN 0 ELSE d.stalled + 1,
              !.frame_tokens = (IF d.calls > 0 /\ d.frame = d.t THEN d.frame_tokens ELSE 0)
                               + (Len(r.tokens) - Len(d.tokens)),
              !.last_emit = IF r.token # blank THEN d.calls + 1 ELSE d.last_emit]

\* The locals as the loop is entered (lines 296-303).
DecStart(num_frames, encoded_len) ==
    [pc |-> "loop", t |-> 0, tokens |-> <<>>, emitted_tokens |-> 0,
     state1 |-> 0, state2 |-> 0,
     num_frames |-> num_frames, encoded_len |-> encoded_len,
     calls |-> 0, frame |-> 0, stalled |-> 0, frame_tokens |-> 0, last_emit |-> 0,
     prev_token |-> 0, in_state |-> 0,
     outputs |-> <<>>, token |-> 0, step |-> 0, text |-> <<>>]
DecIdle == [DecStart(0, 0) EXCEPT !.pc = "idle"]

(***************************************************************************)
(* Detokenization (lines 417-428).  Text is a sequence of characters.      *)
(***************************************************************************)
\* The loop over the tokens given up at the first id the table lacks.
RECURSIVE Concat_stopAtMissing(_, _)
Concat_stopAtMissing(tokens, m) ==
    IF tokens = <<>> \/ Head(tokens) \notin DOMAIN m THEN <<>>
    ELSE m[Head(tokens)] \o Concat_stopAtMissing(Tail(tokens), m)

RECURSIVE Concat(_, _)
Concat(tokens, m) ==
    IF tokens = <<>> THEN <<>>
    ELSE (IF Head(tokens) \in DOMAIN m THEN m[Head(tokens)] ELSE <<>>) \o Concat(Tail(tokens), m)

\* char::is_whitespace, over the characters the vocabularies use.
IsSpace(c) == c \in {" ", "\t"}

\* split_whitespace: the maximal runs of characters that are not whitespace.
RECURSIVE Words(_, _, _)
Words(text, cur, acc) ==
    IF text = <<>> THEN (IF cur = <<>> THEN acc ELSE Append(acc, cur))
    ELSE IF IsSpace(Head(text))
    THEN Words(Tail(text), <<>>, IF cur = <<>> THEN acc ELSE Append(acc, cur))
    ELSE Words(Tail(text), Append(cur, Head(text)), acc)

RECURSIVE Join(_)
Join(ws) ==
    IF ws = <<>> THEN <<>>
    ELSE IF Len(ws) = 1 THEN ws[1]
    ELSE ws[1] \o <<" ">> \o Join(Tail(ws))

\* text.trim().split_whitespace().collect::<Vec<_>>().join(" ")
Normalize(text) == Join(Words(text, <<>>, <<>>))

Detokenize(tokens, m) == Normalize(Concat(tokens, m))

(***************************************************************************)
(* What the decoder-joint session may return: V token logits followed by   *)
(* up to MaxDur duration logits.                                           *)
(***************************************************************************)
Vectors(n) == [1 .. n -> LogitVals]
JointOutputs(V) ==
    {tk \o du : tk \in Vectors(V), du \in UNION {Vectors(n) : n \in 0 .. MaxDur}}

\* A vector of n logits whose single largest entry is at 0-based index k.
OneHot(n, k) == [i \in 1 .. n |-> IF i = k + 1 THEN Num(MaxLogit) ELSE Num(0)]

\* The answers a call is given when the loop is followed iteration by
\* iteration: any token logits, and duration logits that are absent or have
\* one largest entry.
DurationHeads == {<<>>} \cup UNION {{OneHot(n, k) : k \in 0 .. n - 1} : n \in 1 .. MaxDur}
DecoderAnswers(V) == {tk \o du : tk \in Vectors(V), du \in DurationHeads}

(***************************************************************************)
(* transcribe as one call.  The session stub answers call number c with    *)
(* stub[(c % Len(stub)) + 1]; env.fail names the session that errors.      *)
(***************************************************************************)
RECURSIVE RunLoop(_, _, _, _)
RunLoop(d, stub, blank, V) ==
    IF ~LoopCond(d) THEN d
    ELSE RunLoop(Iterate(d, [outputs |-> stub[(d.calls % Len(stub)) + 1],
                                 state |-> d.calls + 1], blank, V),
                 stub, blank, V)

\* Lines 220-428: the three sessions run on audio that is not empty.
RunPipeline(self, env) ==
    IF env.fail = "preprocessor"
    THEN [Err("transcribe", "Failed to run preprocessor") EXCEPT !.invoked = {"preprocessor"}]
    ELSE IF env.fail = "encoder"
    THEN [Err("transcribe", "Failed to run encoder")
          EXCEPT !.invoked = {"preprocessor", "encoder"}]
    ELSE LET d0 == DecStart(env.num_frames, env.encoded_len) IN
         IF LoopCond(d0) /\ env.fail = "decoder"
         THEN [Err("transcribe", "Failed to run decoder")
               EXCEPT !.invoked = {"preprocessor", "encoder", "decoder"}, !.calls = 1]
         ELSE LET d == RunLoop(d0, env.stub, self.blank_idx, self.vocab_size) IN
              [Ok("transcribe", Detokenize(d.tokens, self.vocab))
               EXCEPT !.invoked = {"preprocessor", "encoder"}
                                  \cup (IF d.calls > 0 THEN {"decoder"} ELSE {}),
                      !.calls = d.calls]

\* transcribe without the audio.is_empty() return.
transcribe_noShortCircuit(self, audio, env) ==
    IF ~self.preprocessor_session
    THEN [self |-> self, ret |-> Err("transcribe", "Preprocessor not loaded")]
    ELSE IF ~self.encoder_session
    THEN [self |-> self, ret |-> Err("transcribe", "Encoder not loaded")]
    ELSE IF ~self.decoder_session
    THEN [self |-> self, ret |-> Err("transcribe", "Decoder not loaded")]
    ELSE [self |-> self, ret |-> RunPipeline(self, env)]

\* Lines 208-218: the sessions must be there; empty audio is answered at once.
transcribe(self, audio, env) ==
    IF ~self.preprocessor_session
    THEN [self |-> self, ret |-> Err("transcribe", "Preprocessor not loaded")]
    ELSE IF ~self.encoder_session
    THEN [self |-> self, ret |-> Err("transcribe", "Encoder not loaded")]
    ELSE IF ~self.decoder_session
    THEN [self |-> self, ret |-> Err("transcribe", "Decoder not loaded")]
    ELSE IF audio = <<>>
    THEN [self |-> self, ret |-> Ok("transcribe", <<>>)]
    ELSE [self |-> self, ret |-> RunPipeline(self, env)]

\* The stubs of the decoder-joint session used for a whole call.
TokenParts(V) == IF V = 0 THEN {<<>>} ELSE {OneHot(V, k) : k \in 0 .. V - 1}
StubOutputs(V) == {tk \o du : tk \in TokenParts(V), du \in {<<>>, OneHot(MaxDur, MaxDur - 1)}}
Stubs(V) == {<<a>> : a \in StubOutputs(V)}
FrameCounts == {0, MaxFrames}
Audios == {<<>>, <<1>>}
NoStub == <<(<<>>)>>

\* The sessions' answers to one call: which of them errors, the encoder
\* output's frame count and valid length, the decoder-joint stub.
TranscribeEnvs(V) ==
    {[fail |-> f, num_frames |-> 1, encoded_len |-> 1, stub |-> NoStub] :
        f \in {"preprocessor", "encoder", "decoder"}}
    \cup {[fail |-> "none", num_frames |-> F, encoded_len |-> L, stub |-> stub] :
            F \in {MaxFrames}, L \in FrameCounts, stub \in Stubs(V)}

TranscribeOf(audio) ==
    \E env \in IF preprocessor_session /\ encoder_session /\ decoder_session /\ audio # <<>>
               THEN TranscribeEnvs(vocab_size)
               ELSE {[fail |-> "none", num_frames |-> 0, encoded_len |-> 0, stub |-> NoStub]} :
    LET r == transcribe(Self, audio, env) IN
    /\ LockFree
    /\ Store(r.self)
    /\ ret' = r.ret
    /\ UNCHANGED <<disk, vocab_txt, task, pushed, dec>>

Transcribe == \E audio \in Audios : TranscribeOf(audio)

(***************************************************************************)
(* The program: init_stt_state builds the engine over whatever the model   *)
(* directory holds; then the application's calls and the download tasks    *)
(* interleave.                                                             *)
(***************************************************************************)
InitFails == {"none", "decoder"}
AllFiles(c) == [i \in Files |-> c]
DiskVocabs == {VocabA, VocabBad}

Init ==
    /\ \E c \in {"absent", "good"}, lines \in DiskVocabs, envFail \in InitFails :
          /\ disk = AllFiles(c)
          /\ vocab_txt = IF c = "absent" THEN <<>> ELSE lines
          /\ LET s == new(AllFiles(c), vocab_txt, envFail) IN
             /\ audio_buffer = s.audio_buffer
             /\ is_recording = s.is_recording
             /\ preprocessor_session = s.preprocessor_session
             /\ encoder_session = s.encoder_session
             /\ decoder_session = s.decoder_session
             /\ vocab = s.vocab
             /\ vocab_size = s.vocab_size
             /\ blank_idx = s.blank_idx
             /\ model_status = s.model_status
    /\ task = [i \in Tasks |-> IdleTask]
    /\ ret = Ok("new", <<>>)
    /\ pushed = <<>>
    /\ dec = DecIdle

Download ==
    \E i \in Tasks :
       \/ DlCheck(i)
       \/ DlBegin(i)
       \/ DlProgress(i)
       \/ DlSend(i)
       \/ DlStream(i)
       \/ DlEmitDone(i)
       \/ DlLoad(i)

Next ==
    \/ StartRecording
    \/ PushAudio
    \/ StopRecording
    \/ LoadModels
    \/ Transcribe
    \/ Download

Spec == Init /\ [][Next]_vars

(***************************************************************************)
(* The decode loop iteration by iteration: a loaded engine, one transcribe *)
(* call after another on audio that is not empty, the decoder-joint        *)
(* session free in its answer at each call.  dec holds the call's locals   *)
(* and, once it has returned, its text.                                    *)
(***************************************************************************)
LoadedInit(lines) ==
    /\ disk = AllFiles("good")
    /\ vocab_txt = lines
    /\ LET s == new(AllFiles("good"), lines, "none") IN
       /\ audio_buffer = s.audio_buffer
       /\ is_recording = s.is_recording
       /\ preprocessor_session = s.preprocessor_session
       /\ encoder_session = s.encoder_session
       /\ decoder_session = s.decoder_session
       /\ vocab = s.vocab
       /\ vocab_size = s.vocab_size
       /\ blank_idx = s.blank_idx
       /\ model_status = s.model_status
    /\ task = [i \in Tasks |-> IdleTask]
    /\ ret = Ok("new", <<>>)
    /\ pushed = <<>>

InitDecode ==
    /\ \E lines \in {VocabA, VocabB} : LoadedInit(lines)
    /\ dec = DecIdle

\* Lines 208-303: the sessions are there, the audio is not empty, the
\* preprocessor and the encoder have run.
DecodeBegin ==
    /\ dec.pc \in {"idle", "done", "failed"}
    /\ preprocessor_session /\ encoder_session /\ decoder_session
    /\ \E F \in 0 .. MaxFrames, L \in 0 .. MaxFrames : dec' = DecStart(F, L)
    /\ UNCHANGED <<engine, disk, vocab_txt, task, ret, pushed>>

\* Lines 305-415: one iteration.
DecodeIterOf(o) ==
    /\ dec.pc = "loop"
    /\ LoopCond(dec)
    /\ dec' = Iterate(dec, [outputs |-> o, state |-> dec.calls + 1], blank_idx, vocab_size)
    /\ UNCHANGED <<engine, disk, vocab_txt, task, ret, pushed>>

DecodeIter == \E o \in DecoderAnswers(vocab_size) : DecodeIterOf(o)

\* Lines 334-342: the decoder-joint session errors, and so does the call.
DecodeFail ==
    /\ dec.pc = "loop"
    /\ LoopCond(dec)
    /\ dec' = [dec EXCEPT !.pc = "failed", !.calls = dec.calls + 1]
    /\ UNCHANGED <<engine, disk, vocab_txt, task, ret, pushed>>

\* Lines 417-428: the loop is left and the tokens are rendered.
DecodeEnd ==
    /\ dec.pc = "loop"
    /\ ~LoopCond(dec)
    /\ dec' = [dec EXCEPT !.pc = "done", !.text = Detokenize(dec.tokens, vocab)]
    /\ UNCHANGED <<engine, disk, vocab_txt, task, ret, pushed>>

NextDecode ==
    \/ DecodeBegin
    \/ DecodeIter
    \/ DecodeFail
    \/ DecodeEnd

SpecDecode == InitDecode /\ [][NextDecode]_vars

(***************************************************************************)
(* The selection of token and step from one answer of the decoder-joint    *)
(* session: the first iteration of a call, over every vocabulary size up   *)
(* to three and every answer.                                              *)
(***************************************************************************)
Vocab3 == << <<(<<"h", "i">>), (<<"0">>)>>, <<(<<Marker, "a">>), (<<"1">>)>>, <<Blk, (<<"2">>)>> >>
Vocab1 == << <<Blk, (<<"0">>)>> >>
VocabNone == <<>>

InitSelect ==
    /\ \E lines \in {VocabNone, Vocab1, VocabA, VocabB, Vocab3} : LoadedInit(lines)
    /\ \E o \in JointOutputs(vocab_size) : dec = [DecStart(1, 1) EXCEPT !.outputs = o]

SelectIter ==
    /\ dec.pc = "loop"
    /\ dec.calls = 0
    /\ dec' = Iterate(dec, [outputs |-> dec.outputs, state |-> 1], blank_idx, vocab_size)
    /\ UNCHANGED <<engine, disk, vocab_txt, task, ret, pushed>>

NextSelect == SelectIter

SpecSelect == InitSelect /\ [][NextSelect]_vars

(***************************************************************************)
(* The decode loop over a vocabulary of eight entries with blank id 0: the *)
(* encoder output has ScenarioFrames frames, all of them valid, and the     *)
(* decoder-joint session answers each call with blank or with token 7, and *)
(* with duration logits that are absent or have one largest entry.         *)
(***************************************************************************)
ScenarioFrames == 3
Vocab8 == << <<Blk, (<<"0">>)>>, <<(<<"a">>), (<<"1">>)>>, <<(<<"b">>), (<<"2">>)>>,
             <<(<<"c">>), (<<"3">>)>>, <<(<<"d">>), (<<"4">>)>>, <<(<<"e">>), (<<"5">>)>>,
             <<(<<"f">>), (<<"6">>)>>, <<(<<Marker, "g">>), (<<"7">>)>> >>
ScenarioTokens == {0, 7}
ScenarioAnswers ==
    {OneHot(Len(Vocab8), k) \o du : k \in ScenarioTokens, du \in DurationHeads}

InitScenario ==
    /\ LoadedInit(Vocab8)
    /\ dec = DecIdle

ScenarioBegin ==
    /\ dec.pc \in {"idle", "done", "failed"}
    /\ preprocessor_session /\ encoder_session /\ decoder_session
    /\ dec' = DecStart(ScenarioFrames, ScenarioFrames)
    /\ UNCHANGED <<engine, disk, vocab_txt, task, ret, pushed>>

ScenarioIter == \E o \in ScenarioAnswers : DecodeIterOf(o)

NextScenario ==
    \/ ScenarioBegin
    \/ ScenarioIter
    \/ DecodeFail
    \/ DecodeEnd

SpecScenario == InitScenario /\ [][NextScenario]_vars

(***************************************************************************)
(* Detokenization alone: the end of a transcribe call whose loop has left  *)
(* any sequence of up to MaxDetok token ids, over a vocabulary with a      *)
(* word-start marker, a fragment that is only a space and one that holds a *)
(* tab.                                                                    *)
(***************************************************************************)
MaxDetok == 3
VocabW == << <<(<<"h", "i">>), (<<"5">>)>>,
             <<(<<Marker, "w", "o", "r", "l", "d">>), (<<"6">>)>>,
             <<(<<Marker>>), (<<"7">>)>>,
             <<(<<"a", "\t", "b">>), (<<"8">>)>>,
             <<Blk, (<<"0">>)>> >>
DetokIds == {5, 6, 7, 8, 999}
TokenSeqs == UNION {[1 .. n -> DetokIds] : n \in 0 .. MaxDetok}

InitDetok ==
    /\ LoadedInit(VocabW)
    /\ \E ts \in TokenSeqs : dec = [DecStart(0, 0) EXCEPT !.tokens = ts]

NextDetok == DecodeEnd

SpecDetok == InitDetok /\ [][NextDetok]_vars

(***************************************************************************)
(* The decode loop over a vocabulary with two tokens besides blank: the    *)
(* decoder-joint session is free in its answer at each call, but selects a *)
(* token other than blank at most MaxEmit times in a call.                 *)
(***************************************************************************)
MaxEmit == 3
EmitAnswers(V, blank, emitted) ==
    {OneHot(V, k) \o du :
        k \in IF emitted < MaxEmit THEN 0 .. V - 1 ELSE {blank}, du \in DurationHeads}

InitEmit ==
    /\ LoadedInit(Vocab3)
    /\ dec = DecIdle

EmitIter == \E o \in EmitAnswers(vocab_size, blank_idx, Len(dec.tokens)) : DecodeIterOf(o)

NextEmit ==
    \/ DecodeBegin
    \/ EmitIter
    \/ DecodeFail
    \/ DecodeEnd

SpecEmit == InitEmit /\ [][NextEmit]_vars

(***************************************************************************)
(* Properties.                                                             *)
(***************************************************************************)
Loaded == preprocessor_session /\ encoder_session /\ decoder_session

\* C1: start_recording fails with the not-ready error and leaves the armed
\* flag and the buffer as they were whenever the status is not Ready, and
\* otherwise succeeds, from Idle or Armed, with the buffer emptied and the
\* armed flag set.
C1_StartGatedOnReady ==
    [][StartRecording =>
         IF model_status.type # "Ready"
         THEN /\ ret' = Err("start_recording", "Model not ready. Please download the model first.")
              /\ is_recording' = is_recording
              /\ audio_buffer' = audio_buffer
         ELSE /\ ret'.op = "start_recording" /\ ret'.ok
              /\ is_recording'
              /\ audio_buffer' = <<>>]_vars

\* A refused start that found the engine armed with samples in the buffer.
C1_Witness ==
    /\ ret.op = "start_recording" /\ ~ret.ok
    /\ model_status.type = "Downloading"
    /\ is_recording /\ audio_buffer # <<>>

\* C2: push_audio while not armed fails with the not-recording error and
\* leaves the buffer as it was; while armed it appends the samples; no step
\* of any operation makes the buffer longer unless recording is armed.
C2_PushOnlyWhileArmed ==
    [][/\ \A samples \in Chunks :
            PushAudioOf(samples) =>
               IF ~is_recording
               THEN ret' = Err("push_audio", "Not recording") /\ audio_buffer' = audio_buffer
               ELSE ret'.ok /\ audio_buffer' = audio_buffer \o samples
       /\ Len(audio_buffer') > Len(audio_buffer) => is_recording]_vars

\* A refused push after a stop that handed over samples recorded before it.
C2_Witness ==
    /\ ret.op = "push_audio" /\ ~ret.ok
    /\ ~is_recording /\ pushed # <<>> /\ audio_buffer = <<>>

\* C3: stop_recording always succeeds and leaves the engine Idle with an
\* empty buffer; called while armed it returns the samples of the successful
\* pushes since the last successful start, in call order; called while Idle
\* it returns the empty sequence.
C3_StopReturnsPushes ==
    [][StopRecording =>
         /\ ret'.op = "stop_recording" /\ ret'.ok
         /\ ~is_recording'
         /\ audio_buffer' = <<>>
         /\ ret'.out = IF is_recording THEN pushed ELSE <<>>]_vars

\* A stop that returned two different samples in the order they were pushed.
C3_Witness ==
    /\ ret.op = "stop_recording" /\ ret.out = <<2, 1>>
    /\ pushed = <<2, 1>> /\ ~is_recording /\ audio_buffer = <<>>

\* C4 (as claimed): once the status is Ready with the components loaded, no
\* step takes the status away from Ready, and no step changes a model file
\* while the components are loaded.
C4_ReadyIsKept ==
    [][/\ (model_status.type = "Ready" /\ Loaded) => model_status'.type = "Ready"
       /\ Loaded => disk' = disk]_vars

\* A load_models call made in this step: by the application or by a
\* download task's last block.
LoadCall == LoadModels \/ \E i \in Tasks : DlLoad(i)
SubstepErrors == {"Failed to read vocab", "Invalid vocab ID",
                  "Failed to initialize ONNX Runtime",
                  "Failed to load preprocessor model",
                  "Failed to load encoder model",
                  "Failed to load decoder model"}

\* C5 (as claimed): a load that fails at a sub-step leaves no component
\* initialized and the status at Error with the failure's message.
C5_FailedLoadSetsError ==
    [][(LoadCall /\ ~ret'.ok /\ ret'.err \in SubstepErrors) =>
          /\ model_status' = Error(ret'.err)
          /\ ~preprocessor_session' /\ ~encoder_session' /\ ~decoder_session']_vars

\* C6: a load attempted while a required file is missing fails with the
\* models-missing error and changes neither the status, nor the vocabulary,
\* its size and blank id, nor the three component slots.
C6_MissingFilesChangeNothing ==
    [][(LoadCall /\ \E i \in Files : disk[i] = "absent") =>
          /\ ~ret'.ok /\ ret'.err = "Models not downloaded"
          /\ model_status' = model_status
          /\ vocab' = vocab /\ vocab_size' = vocab_size /\ blank_idx' = blank_idx
          /\ preprocessor_session' = preprocessor_session
          /\ encoder_session' = encoder_session
          /\ decoder_session' = decoder_session]_vars

\* A load refused for missing files in the middle of a download.
C6_Witness ==
    /\ ret = Err("load_models", "Models not downloaded")
    /\ model_status.type = "Downloading"
    /\ \E i \in Files : disk[i] = "good"
    /\ \E i \in Files : disk[i] = "absent"

\* C7 (as claimed): transcribe runs a neural component only when the status
\* is Ready.
C7_DecodingGatedOnReady ==
    [][(Transcribe /\ ret'.invoked # {}) => model_status.type = "Ready"]_vars

\* C8 (as claimed): in any engine state transcribing empty audio returns the
\* empty string as a success and runs no component.
C8_EmptyAudioAlwaysOk ==
    [][TranscribeOf(<<>>) => (ret' = Ok("transcribe", <<>>))]_vars

\* C8 (amended): transcribing empty audio runs no component; it returns the
\* empty string as a success when the three components are loaded, and the
\* not-loaded error of the first missing component otherwise.
C8_EmptyAudioShortCircuit ==
    [][TranscribeOf(<<>>) =>
         /\ ret'.invoked = {}
         /\ ret'.calls = 0
         /\ IF Loaded THEN ret' = Ok("transcribe", <<>>)
            ELSE /\ ~ret'.ok
                 /\ ret'.err = IF ~preprocessor_session THEN "Preprocessor not loaded"
                               ELSE IF ~encoder_session THEN "Encoder not loaded"
                               ELSE "Decoder not loaded"]_vars

\* Empty audio answered with the empty string by a loaded engine.
C8_Witness ==
    /\ ret = Ok("transcribe", <<>>)
    /\ Loaded

Min(a, b) == IF a < b THEN a ELSE b

\* C9: in the decode loop t never decreases, at most maxTokensPerFrame
\* iterations in a row leave t where it is, and the decoder-joint session
\* is called at most L * maxTokensPerFrame times, L the valid length
\* min(encoded_len, num_frames); the loop is over once t reaches L.
C9_LoopAdvances ==
    dec.pc # "idle" =>
       /\ dec.frame <= dec.t
       /\ dec.stalled <= max_tokens_per_step
       /\ dec.calls <= Min(dec.encoded_len, dec.num_frames) * max_tokens_per_step
       /\ dec.pc = "done" => dec.t >= Min(dec.encoded_len, dec.num_frames)

\* A call that needed every one of the L * maxTokensPerFrame invocations.
C9_Witness ==
    /\ dec.pc = "done"
    /\ Min(dec.encoded_len, dec.num_frames) = MaxFrames
    /\ dec.calls = MaxFrames * max_tokens_per_step

TokenLogits == SubSeq(dec.outputs, 1, vocab_size)
DurationLogits == SubSeq(dec.outputs, vocab_size + 1, Len(dec.outputs))
Comparable(xs) == \A k \in 1 .. Len(xs) : ~xs[k].nan
Flat(xs) == \/ \A k \in 1 .. Len(xs) : xs[k].nan
            \/ \A j, k \in 1 .. Len(xs) : ~xs[j].nan /\ xs[j].v = xs[k].v
IsMaxAt(xs, i) == \A k \in 1 .. Len(xs) : xs[k].v <= xs[i + 1].v
\* The smallest and the largest 0-based index holding the maximum.
FirstMax(xs) == CHOOSE i \in 0 .. Len(xs) - 1 :
                   IsMaxAt(xs, i) /\ \A j \in 0 .. i - 1 : ~IsMaxAt(xs, j)
LastMax(xs) == CHOOSE i \in 0 .. Len(xs) - 1 :
                  IsMaxAt(xs, i) /\ \A j \in i + 1 .. Len(xs) - 1 : ~IsMaxAt(xs, j)

\* C10 (as claimed): token and step are the smallest index holding the
\* maximum logit, index 0 when every logit is equal or incomparable, and
\* step is 0 without duration logits.
C10_FirstMaxWins ==
    dec.calls = 1 =>
       /\ (TokenLogits # <<>> /\ Comparable(TokenLogits)) => dec.token = FirstMax(TokenLogits)
       /\ (TokenLogits # <<>> /\ Flat(TokenLogits)) => dec.token = 0
       /\ (DurationLogits # <<>> /\ Comparable(DurationLogits)) => dec.step = FirstMax(DurationLogits)
       /\ (DurationLogits # <<>> /\ Flat(DurationLogits)) => dec.step = 0
       /\ DurationLogits = <<>> => dec.step = 0

\* C10 (amended): token and step are the largest index holding the maximum
\* logit when the logits are all comparable, the last index when every
\* logit is equal or incomparable, and step is 0 without duration logits.
C10_LastMaxWins ==
    dec.calls = 1 =>
       /\ (TokenLogits # <<>> /\ Comparable(TokenLogits)) => dec.token = LastMax(TokenLogits)
       /\ (TokenLogits # <<>> /\ Flat(TokenLogits)) => dec.token = Len(TokenLogits) - 1
       /\ (DurationLogits # <<>> /\ Comparable(DurationLogits)) => dec.step = LastMax(DurationLogits)
       /\ (DurationLogits # <<>> /\ Flat(DurationLogits)) => dec.step = Len(DurationLogits) - 1
       /\ DurationLogits = <<>> => dec.step = 0

\* Three equal token logits and two incomparable duration logits: the last
\* index of each is selected.
C10_Witness ==
    /\ dec.calls = 1
    /\ Len(TokenLogits) = 3 /\ Flat(TokenLogits) /\ Comparable(TokenLogits)
    /\ Len(DurationLogits) = 2 /\ \A k \in 1 .. 2 : DurationLogits[k].nan
    /\ dec.token = 2 /\ dec.step = 1

\* A step of the loop that was one iteration: the decoder-joint call was
\* made and did not error.
Iterated == dec.pc = "loop" /\ dec'.pc = "loop" /\ dec'.calls = dec.calls + 1

\* The duration logits of an answer, and a vector whose entry at 0-based
\* index k is a number larger than every other entry.
DurationsOf(o) == SubSeq(o, vocab_size + 1, Len(o))
DominantAt(xs, k) ==
    /\ k + 1 \in 1 .. Len(xs)
    /\ Comparable(xs)
    /\ \A j \in 1 .. Len(xs) : j # k + 1 => xs[j].v < xs[k + 1].v

\* C11 (as claimed): an iteration whose duration logits have a single
\* dominant value at index k leaves t at its value before plus k, whatever
\* token it selected.
C11_StepIsDominantIndex ==
    [][Iterated =>
       \A o \in ScenarioAnswers :
          DecodeIterOf(o) =>
             \A k \in 0 .. MaxDur - 1 :
                DominantAt(DurationsOf(o), k) => dec'.t = dec.t + k]_vars

\* C11 (amended): with the dominant value at an index k > 0 the iteration
\* leaves t at its value before plus k, whatever token it selected; with it
\* at index 0 the iteration adds 1 to t when it selected blank or pushed the
\* tenth token of the frame, and leaves t as it was otherwise.
C11_PositiveStepIsDominantIndex ==
    [][Iterated =>
       \A o \in ScenarioAnswers :
          DecodeIterOf(o) =>
             \A k \in 0 .. MaxDur - 1 :
                DominantAt(DurationsOf(o), k) =>
                   IF k > 0 THEN dec'.t = dec.t + k
                   ELSE IF dec'.token = blank_idx
                           \/ dec.emitted_tokens + 1 >= max_tokens_per_step
                        THEN dec'.t = dec.t + 1
                        ELSE dec'.t = dec.t]_vars

\* An iteration that pushed a token and moved two frames ahead on its step.
C11_Witness ==
    /\ dec.pc = "loop" /\ dec.calls > 0
    /\ dec.step = 2 /\ dec.token # blank_idx
    /\ dec.tokens # <<>>
    /\ dec.t = dec.frame + 2

\* The token logits of an answer; an answer that selects token x and step k
\* by a single largest entry (step 0 also when there are no duration logits).
TokensOf(o) == SubSeq(o, 1, vocab_size)
Selects(o, x, k) ==
    /\ DominantAt(TokensOf(o), x)
    /\ \/ DurationsOf(o) = <<>> /\ k = 0
       \/ DominantAt(DurationsOf(o), k)

C13_FailedVocabLoadKeepsTable ==
    [][(LoadCall /\ ~ret'.ok /\ ret'.err \in {"Failed to read vocab", "Invalid vocab ID"}) =>
          /\ vocab' = vocab
          /\ vocab_size' = vocab_size
          /\ blank_idx' = blank_idx]_vars

\* The ids of a sequence that the table holds, in order; the fragments of
\* such ids joined; and a text with its whitespace put in order: a whitespace
\* character stays, as one space, only right before a character that is not
\* whitespace and after some character that is not whitespace.
Present(ts) == SelectSeq(ts, LAMBDA id : id \in DOMAIN vocab)
RECURSIVE Fragments(_)
Fragments(ts) ==
    IF ts = <<>> THEN <<>>
    ELSE Fragments(SubSeq(ts, 1, Len(ts) - 1)) \o vocab[ts[Len(ts)]]
White(c) == c \in {" ", "\t"}
Stays(text, k) ==
    \/ ~White(text[k])
    \/ /\ k < Len(text) /\ ~White(text[k + 1])
       /\ \E j \in 1 .. k - 1 : ~White(text[j])
RECURSIVE TidyFrom(_, _)
TidyFrom(text, k) ==
    IF k > Len(text) THEN <<>>
    ELSE (IF Stays(text, k) THEN <<(IF White(text[k]) THEN " " ELSE text[k])>> ELSE <<>>)
         \o TidyFrom(text, k + 1)
Tidy(text) == TidyFrom(text, 1)

\* C14: the text of a call is the in-order concatenation of the fragments of
\* the ids the table holds, with the ends stripped and every whitespace run
\* inside made one space; ids the table lacks add nothing, the text being
\* that of the sequence without them; no sequence makes the step fail.
C14_DetokenizeDropsAbsent ==
    /\ (dec.pc = "loop" /\ ~LoopCond(dec)) => ENABLED DecodeEnd
    /\ dec.pc = "done" =>
          /\ dec.text = Tidy(Fragments(Present(dec.tokens)))
          /\ dec.text = Detokenize(Present(dec.tokens), vocab)

\* Ids 5, 999, 6 rendered as "hi world".
C14_Witness ==
    /\ dec.pc = "done"
    /\ dec.tokens = <<5, 999, 6>>
    /\ dec.text = <<"h", "i", " ", "w", "o", "r", "l", "d">>

\* C15: the recurrent state pair is zeros as a call enters its loop; an
\* iteration that selects a token other than blank replaces both halves by
\* the state its decoder-joint call returned, and one that selects blank
\* leaves them; the state a call is given is the one returned by the last
\* earlier call of the same transcribe that selected a token other than
\* blank, zeros if there is none.
C15_StateFollowsEmission ==
    [][/\ DecodeBegin => (dec'.state1 = 0 /\ dec'.state2 = 0)
       /\ Iterated =>
             /\ dec'.in_state = dec.last_emit
             /\ dec.state2 = dec.last_emit
             /\ IF dec'.token # blank_idx
                THEN dec'.state1 = dec.calls + 1 /\ dec'.state2 = dec.calls + 1
                ELSE dec'.state1 = dec.state1 /\ dec'.state2 = dec.state2]_vars

\* The third call given the state the first returned, the second having
\* selected blank, and itself selecting a token.
C15_Witness ==
    /\ dec.pc = "loop" /\ dec.calls = 3
    /\ dec.in_state = 1
    /\ dec.state1 = 3 /\ dec.state2 = 3
    /\ Len(dec.tokens) = 2

\* C16: the previous token given to a decoder-joint call is the last of
\* the tokens pushed so far in the same transcribe call, and the blank id
\* when none has been pushed.
C16_PrevTokenIsLastEmitted ==
    [][Iterated =>
          dec'.prev_token = IF Len(dec.tokens) = 0 THEN blank_idx
                            ELSE dec.tokens[Len(dec.tokens)]]_vars

\* A call given token 1 as the previous token after tokens 0 and 1.
C16_Witness ==
    /\ dec.pc = "loop"
    /\ dec.tokens = <<0, 1, 0>>
    /\ dec.prev_token = 1 /\ dec.token = 0

\* C17: the tokens of a transcribe call never hold the blank id, and a step
\* of the loop leaves them as they were or adds one token at the end.
C17_TokensGrowWithoutBlank ==
    [][dec.pc = "loop" =>
          /\ \A k \in 1 .. Len(dec'.tokens) : dec'.tokens[k] # blank_idx
          /\ \/ dec'.tokens = dec.tokens
             \/ /\ Len(dec'.tokens) = Len(dec.tokens) + 1
                /\ SubSeq(dec'.tokens, 1, Len(dec.tokens)) = dec.tokens]_vars

\* Two different tokens pushed around an iteration that selected blank.
C17_Witness ==
    /\ dec.pc = "done"
    /\ dec.tokens = <<1, 0>>
    /\ dec.calls = 3 /\ dec.last_emit = 3 /\ dec.in_state = 1

\* C18: the counter of tokens pushed at the frame is 0 after every
\* iteration that moved t and is never above maxTokensPerFrame = 10; at most
\* 10 tokens are pushed while t holds one value, and a call over valid
\* length L pushes at most 10 * L tokens.
C18_CounterCapsEmission ==
    [][Iterated =>
          /\ dec'.t > dec.t => dec'.emitted_tokens = 0
          /\ dec'.emitted_tokens <= 10
          /\ dec'.frame_tokens <= 10
          /\ Len(dec'.tokens) <= 10 * Min(dec'.encoded_len, dec'.num_frames)]_vars

\* A call that pushed 10 tokens at each of its frames.
C18_Witness ==
    /\ dec.pc = "done"
    /\ Min(dec.encoded_len, dec.num_frames) = MaxFrames
    /\ Len(dec.tokens) = 10 * MaxFrames
    /\ dec.frame_tokens = 10 /\ dec.emitted_tokens = 0

\* C19: between any two steps of a download task, and so all through its
\* waits on the network, the task does not hold the engine lock: a start, a
\* push and a stop of another caller can run at once.
C19_LockFreeBetweenSteps ==
    \A i \in Tasks :
       /\ ~task[i].locked
       /\ task[i].pc \in {"begin", "loop", "send", "stream"} =>
             /\ ENABLED StartRecording
             /\ ENABLED PushAudioOf(<<>>)
             /\ ENABLED StopRecording

\* A task in the middle of writing its third file, with a recording that
\* was started and fed after the task's first step: no start succeeds
\* before it, the status not being Ready then.
C19_Witness ==
    /\ task[1].pc = "stream" /\ task[1].downloaded = 2
    /\ is_recording /\ audio_buffer = <<1>>
    /\ ret.op = "push_audio" /\ ret.ok

\* C20: when the status is Ready the three component slots are filled; the
\* three slots are all empty or all filled; the step that fills them sets
\* the status to Ready, and the status becomes Ready only by a load that
\* succeeds.
C20_ReadyMeansLoaded ==
    /\ [](/\ model_status.type = "Ready" => Loaded
          /\ preprocessor_session = encoder_session
          /\ encoder_session = decoder_session)
    /\ [][/\ (~Loaded /\ Loaded') => model_status'.type = "Ready"
         /\ (model_status.type # "Ready" /\ model_status'.type = "Ready") =>
               (LoadCall /\ ret'.ok /\ Loaded')]_vars

\* A download that ended with a load that filled the slots and set Ready.
C20_Witness ==
    /\ task[1].pc = "done" /\ task[1].downloaded = total_files
    /\ ret = Ok("download_models", <<>>)
    /\ model_status = Ready
    /\ Loaded

\* C21: every iteration of the decode loop, failing ones included, reads the
\* encoder output at a frame index t below the tensor's frame count and
\* below the encoded length, whatever steps the iterations before it took;
\* once t has reached or passed either bound no further read is made and
\* the only step left is the one that leaves the loop.
C21_FrameReadInBounds ==
    [][/\ (dec.pc = "loop" /\ dec'.calls = dec.calls + 1) =>
             (dec.t < dec.num_frames /\ dec.t < dec.encoded_len)
       /\ (Iterated => dec'.frame = dec.t /\ dec'.frame < dec.num_frames)
       /\ (dec.pc = "loop" /\ (dec.t >= dec.num_frames \/ dec.t >= dec.encoded_len)) =>
             (dec'.pc = "done" /\ dec'.calls = dec.calls /\ dec'.t = dec.t)]_vars

\* A decode that ended after a step of two from the last frame carried t
\* past the frame count of a tensor shorter than its encoded length.
C21_Witness ==
    /\ dec.pc = "done"
    /\ dec.calls > 0
    /\ dec.step = 2
    /\ dec.frame = dec.num_frames - 1
    /\ dec.t > dec.num_frames
    /\ dec.num_frames < dec.encoded_len

\* C22: Downloading is a transient status: once a download task has
\* returned, with success or with the error of a failed file download or of
\* a failed final load, the status is no longer Downloading.
C22_DownloadingIsTransient ==
    \A i \in Tasks : task[i].pc = "done" => model_status.type # "Downloading"

====
